---- MODULE Spec2Model ----
(***************************************************************************)
(* A model of sageopt's coniclifts compilation core: the elementwise       *)
(* constraint compiler (constraints/elementwise.py), the nonlinear atoms   *)
(* (operators/exp.py, operators/norms.py) and the primal ordinary SAGE     *)
(* cone (constraints/set_membership/ordinary_sage_cone.py).                *)
(*                                                                         *)
(* Conventions.  A Python list or 1-d ndarray is a TLA+ sequence; entry i  *)
(* of the Python object (0-based) is entry i+1 of the sequence.  Row and   *)
(* column indices stored INSIDE a fragment keep their Python (0-based)     *)
(* values.  A call's outcome is a record: status "ok" with the returned    *)
(* tuple in ret, or status "raise" with the exception's type in exc.       *)
(***************************************************************************)
EXTENDS Integers, Sequences, FiniteSets, TLC

VARIABLES
    varCount,   \* ScalarVariable's process-wide id counter (curr_variable_count())
    val,        \* the value held by each allocated ScalarVariable
    con,        \* an ElementwiseConstraint object (or NoObj before construction)
    con2,       \* a second ElementwiseConstraint object
    hist,       \* per constraint: did a caller set its flag, did it emit a fragment
    norm,       \* a Vector2Norm atom (or NoObj)
    expo,       \* an Exponential atom (or NoObj)
    atomCount,  \* _VECTOR_2_NORM_COUNTER_ and _EXPONENTIAL_COUNTER_
    sage,       \* a PrimalOrdinarySageCone object (or NoObj)
    out         \* the outcome of the last call made

vars == <<varCount, val, con, con2, hist, norm, expo, atomCount, sage, out>>
ewVars == <<con, con2, hist>>
atomVars == <<norm, expo, atomCount>>
\* what the operations on one family of objects leave alone
notEW == <<norm, expo, atomCount, sage>>
notAtoms == <<con, con2, hist, sage>>
notSage == <<con, con2, hist, norm, expo, atomCount>>

-----------------------------------------------------------------------------
(* Bounds of the model *)

\* ScalarVariables a caller allocates by hand
MaxVars == 2
\* entries of an Expression handed to a constructor
MaxLen == 2
\* rows of alpha (entries of c) of a SAGE constraint
MaxM == 3
\* auxiliary ScalarVariables one SAGE constraint may allocate
MaxAux == 7
MaxAtoms == 2

\* constant terms and variable values the inputs are drawn from
OffsetVals == {0, 1}
ValueVals == {-1, 1, 2}
WeightVals == {-1, 0, 1}
\* operator tokens handed to the constructor; "<" is a token outside _ELEMENTWISE_OPS_
OpTokens == {"==", "<=", ">=", "<"}

NoObj == [exists |-> FALSE]
NoOut == [op |-> "none"]
Raise(e) == [status |-> "raise", exc |-> e]
Ok(r) == [status |-> "ok", ret |-> r]

Abs(x) == IF x < 0 THEN -x ELSE x

-----------------------------------------------------------------------------
(* Scalar algebra (sageopt.coniclifts.base): a ScalarExpression is an       *)
(* ordered association atoms_to_coeffs from atom id to coefficient, plus    *)
(* an offset.                                                               *)

ScalarExpression(a2c, off) == [atoms_to_coeffs |-> a2c, offset |-> off]

\* remove_zeros: zero-coefficient atoms are never stored persistently
remove_zeros(a2c) == SelectSeq(a2c, LAMBDA e : e[2] # 0)

\* merge the items of one coefficient map into another, in iteration order
RECURSIVE merge_coeffs(_, _)
merge_coeffs(acc, items) ==
    IF items = <<>> THEN acc
    ELSE LET k == Head(items)[1]
             v == Head(items)[2]
             hit == \E j \in 1..Len(acc) : acc[j][1] = k
             nxt == IF hit
                    THEN [j \in 1..Len(acc) |->
                            IF acc[j][1] = k THEN <<k, acc[j][2] + v>> ELSE acc[j]]
                    ELSE Append(acc, <<k, v>>)
         IN merge_coeffs(nxt, Tail(items))

\* ScalarExpression.__add__
scalar_add(a, b) ==
    ScalarExpression(remove_zeros(merge_coeffs(a.atoms_to_coeffs, b.atoms_to_coeffs)),
                     a.offset + b.offset)

\* ScalarExpression.__mul__ by the number -1
scalar_neg(a) ==
    ScalarExpression([j \in 1..Len(a.atoms_to_coeffs) |->
                        <<a.atoms_to_coeffs[j][1], -a.atoms_to_coeffs[j][2]>>],
                     -a.offset)

\* ScalarExpression.__sub__
scalar_sub(a, b) == scalar_add(a, scalar_neg(b))

\* Expression.__sub__ of two arrays of one length, then as_expr().ravel()
expr_sub(x, y) == [i \in 1..Len(x) |-> scalar_sub(x[i], y[i])]

\* the coefficient a ScalarExpression holds for an atom id (0 if absent)
RECURSIVE coeff_sum(_, _)
coeff_sum(a2c, id) ==
    IF a2c = <<>> THEN 0
    ELSE (IF Head(a2c)[1] = id THEN Head(a2c)[2] ELSE 0) + coeff_sum(Tail(a2c), id)

\* ScalarExpression.value(): the affine combination at the variables' values
RECURSIVE scalar_terms(_, _)
scalar_terms(a2c, v) ==
    IF a2c = <<>> THEN 0
    ELSE Head(a2c)[2] * v[Head(a2c)[1]] + scalar_terms(Tail(a2c), v)

scalar_value(se, v) == scalar_terms(se.atoms_to_coeffs, v) + se.offset

\* the values of an Expression's entries
expr_value(x, v) == [i \in 1..Len(x) |-> scalar_value(x[i], v)]

\* an ndarray of numbers
ndarray(x) == [kind |-> "array", of |-> x]

\* what `value` is on an Expression.  base.py decides it, and its two
\* callers disagree: elementwise.py:101 calls it (`expr.value()`), and
\* ordinary_sage_cone.py:241 and 249 read it as data (`self.c.value`).  Both
\* readings are kept: a bound method that returns the array of values, or a
\* property that is this array.
ValueReadings == {"method", "property"}

\* `expr.value`, without a call
value_attribute(expr, v, reading) ==
    IF reading = "property" THEN ndarray(expr_value(expr, v))
    ELSE [kind |-> "method", of |-> expr_value(expr, v)]

\* `x()`: calling what was read; a bound method hands over the values, an
\* ndarray is not callable
call(x) == IF x.kind = "method" THEN Ok(x.of) ELSE Raise("TypeError")

-----------------------------------------------------------------------------
(* Inputs: affine rows over the variables allocated so far *)

RowPool(n) ==
    {ScalarExpression(<<>>, o) : o \in OffsetVals}
    \cup {ScalarExpression(<< <<v, 1>> >>, 0) : v \in 0..(n - 1)}

ExprPool(n) == UNION {[1..L -> RowPool(n)] : L \in 1..MaxLen}

ExprPairs(n) ==
    UNION {[1..L -> RowPool(n)] \X [1..L -> RowPool(n)] : L \in 1..MaxLen}

Assignments(n) == [0..(n - 1) -> ValueVals]

-----------------------------------------------------------------------------
(* ElementwiseConstraint (constraints/elementwise.py) *)

\* _ELEMENTWISE_OPS_
ELEMENTWISE_OPS == {"==", "<=", ">="}

\* (mutation: ">=" is not turned around)
canonical_expr_unswapped(lhs, rhs, operator) == expr_sub(lhs, rhs)

\* the canonical expression __init__ builds
canonical_expr(lhs, rhs, operator) ==
    IF operator = "==" THEN expr_sub(lhs, rhs)
    ELSE IF operator = ">=" THEN expr_sub(rhs, lhs)
    ELSE expr_sub(lhs, rhs)

\* (mutation: every new constraint counts as checked)
initial_epigraph_checked_always(operator) == TRUE

\* the flag __init__ leaves on the new object
initial_epigraph_checked(operator) == (operator = "==")

\* ElementwiseConstraint.__init__ (the inputs are affine, so neither
\* curvature check can raise; _CURVATURE_CHECK_ is False besides)
ElementwiseConstraint(lhs, rhs, operator) ==
    [exists |-> TRUE,
     lhs |-> lhs,
     rhs |-> rhs,
     initial_operator |-> operator,
     expr |-> canonical_expr(lhs, rhs, operator),
     operator |-> IF operator = "==" THEN "==" ELSE "<=",
     epigraph_checked |-> initial_epigraph_checked(operator)]

\* the loop of conic_form over self.expr.flat, from entry i (1-based) on
RECURSIVE conic_rows(_, _, _)
conic_rows(expr, i, count) ==
    IF i > Len(expr) THEN [rows |-> <<>>, cols |-> <<>>, vals |-> <<>>]
    ELSE LET a2c == expr[i].atoms_to_coeffs
             n == Len(a2c)
             this == IF n = 0
                     THEN [rows |-> <<i - 1>>, cols |-> <<count - 1>>, vals |-> <<0>>]
                     ELSE [rows |-> [j \in 1..n |-> i - 1],
                           cols |-> [j \in 1..n |-> a2c[j][1]],
                           vals |-> [j \in 1..n |-> -a2c[j][2]]]
             rest == conic_rows(expr, i + 1, count)
         IN [rows |-> this.rows \o rest.rows,
             cols |-> this.cols \o rest.cols,
             vals |-> this.vals \o rest.vals]

\* the guard of conic_form
conic_form_allowed(c) == c.epigraph_checked

\* ElementwiseConstraint.conic_form, called while the counter stands at count
Elementwise_conic_form(c, count) ==
    IF ~conic_form_allowed(c) THEN Raise("RuntimeError")
    ELSE IF c.operator \notin {"==", "<="} THEN Raise("RuntimeError")
    ELSE LET m == Len(c.expr)
             b == [i \in 1..m |-> -c.expr[i].offset]
             K == << <<(IF c.operator = "==" THEN "0" ELSE "+"), m>> >>
             A == conic_rows(c.expr, 1, count)
         IN Ok(<<A.vals, A.rows, A.cols, b, K, <<>>>>)

\* numpy's np.max(a, axis) / np.min(a, axis) as violation() calls them: the
\* first argument is the number 0 and the array of values arrives as `axis`;
\* an ndarray of floats is no axis, and numpy raises TypeError
np_reduce_scalar_over_axis(a, axis) == Raise("TypeError")

\* the default norm of violation(): abs for one entry, else the 2-norm,
\* kept as the sum of squares under a root
default_norm(x) ==
    LET SumSq[k \in 0..Len(x)] == IF k = 0 THEN 0 ELSE SumSq[k - 1] + x[k] * x[k]
    IN IF Len(x) = 1 THEN [root |-> FALSE, of |-> Abs(x[1])]
       ELSE [root |-> TRUE, of |-> SumSq[Len(x)]]

\* ElementwiseConstraint.violation(norm=None) at the variables' values v:
\* line 101 calls `expr.value()`, and the lines after it are those of the code
Elementwise_violation(c, v, reading) ==
    LET called == call(value_attribute(expr_sub(c.lhs, c.rhs), v, reading))
        expr_val == called.ret
    IN IF called.status = "raise" THEN called
       ELSE IF c.initial_operator = "<=" THEN np_reduce_scalar_over_axis(0, expr_val)
       ELSE IF c.initial_operator = ">=" THEN np_reduce_scalar_over_axis(0, expr_val)
       ELSE Ok(default_norm([i \in 1..Len(expr_val) |-> Abs(expr_val[i])]))

-----------------------------------------------------------------------------
(* Actions *)

NoHist == [k \in {1, 2} |-> [flag_set |-> FALSE, emitted |-> FALSE]]

Init ==
    /\ varCount = 0
    /\ val = <<>>
    /\ con = NoObj
    /\ con2 = NoObj
    /\ hist = NoHist
    /\ norm = NoObj
    /\ expo = NoObj
    /\ atomCount = [norm |-> 0, exp |-> 0]
    /\ sage = NoObj
    /\ out = NoOut

\* Variable(shape=()): one more ScalarVariable, with no value yet
NewVariable ==
    /\ varCount < MaxVars
    /\ varCount' = varCount + 1
    /\ UNCHANGED <<val, ewVars, atomVars, sage, out>>

\* con = ElementwiseConstraint(lhs, rhs, operator), operator among tokens
ConstructWith(tokens) ==
    /\ con = NoObj
    /\ \E p \in ExprPairs(varCount), operator \in tokens :
          con' = ElementwiseConstraint(p[1], p[2], operator)
    /\ out' = [op |-> "init", who |-> 1]
    /\ UNCHANGED <<varCount, val, con2, hist, notEW>>

Construct == ConstructWith(OpTokens)

\* a caller's con.epigraph_checked = True
SetFlag ==
    /\ con # NoObj
    /\ con' = [con EXCEPT !.epigraph_checked = TRUE]
    /\ hist' = [hist EXCEPT ![1].flag_set = TRUE]
    /\ UNCHANGED <<varCount, val, con2, notEW, out>>

\* con.conic_form()
ConicForm ==
    /\ con # NoObj
    /\ LET r == Elementwise_conic_form(con, varCount)
       IN /\ out' = [op |-> "conic_form", who |-> 1, count |-> varCount] @@ r
          /\ hist' = [hist EXCEPT ![1].emitted = @ \/ r.status = "ok"]
    /\ UNCHANGED <<varCount, val, con, con2, notEW>>

NextEW == NewVariable \/ Construct \/ SetFlag \/ ConicForm

SpecEW == Init /\ [][NextEW]_vars

\* the solver's write-back: every allocated variable receives a value
SetValues ==
    /\ \E a \in Assignments(varCount) : val' = a
    /\ UNCHANGED <<varCount, ewVars, atomVars, sage, out>>

\* con.violation()
Violation ==
    /\ con # NoObj
    /\ DOMAIN val = 0..(varCount - 1)
    /\ \E reading \in ValueReadings :
          out' = [op |-> "violation", who |-> 1, at |-> val, value_is |-> reading]
                    @@ Elementwise_violation(con, val, reading)
    /\ UNCHANGED <<varCount, val, ewVars, notEW>>

NextViol == NewVariable \/ Construct \/ (con # NoObj /\ SetValues) \/ Violation

SpecViol == Init /\ [][NextViol]_vars

\* con2 = ElementwiseConstraint(con.rhs, con.lhs, operator): the operands of
\* con, exchanged
ConstructSwapped ==
    /\ con # NoObj
    /\ con2 = NoObj
    /\ \E operator \in {"<=", ">="} :
          con2' = ElementwiseConstraint(con.rhs, con.lhs, operator)
    /\ out' = [op |-> "init", who |-> 2]
    /\ UNCHANGED <<varCount, val, con, hist, notEW>>

\* a caller's con2.epigraph_checked = True
SetFlag2 ==
    /\ con2 # NoObj
    /\ con2' = [con2 EXCEPT !.epigraph_checked = TRUE]
    /\ hist' = [hist EXCEPT ![2].flag_set = TRUE]
    /\ UNCHANGED <<varCount, val, con, notEW, out>>

\* con2.conic_form()
ConicForm2 ==
    /\ con2 # NoObj
    /\ LET r == Elementwise_conic_form(con2, varCount)
       IN /\ out' = [op |-> "conic_form", who |-> 2, count |-> varCount] @@ r
          /\ hist' = [hist EXCEPT ![2].emitted = @ \/ r.status = "ok"]
    /\ UNCHANGED <<varCount, val, con, con2, notEW>>

\* the pair is built and compiled with the variables allocated beforehand
NextPair ==
    \/ (con = NoObj /\ NewVariable)
    \/ ConstructWith({">="}) \/ ConstructSwapped
    \/ SetFlag \/ SetFlag2 \/ ConicForm \/ ConicForm2

SpecPair == Init /\ [][NextPair]_vars

-----------------------------------------------------------------------------
(* Nonlinear atoms (operators/norms.py, operators/exp.py) *)

\* NonlinearScalarAtom.parse_arg: the (variable, coefficient) pairs of an
\* affine ScalarExpression, then one last pair whose second entry is the offset
parse_arg(se) == se.atoms_to_coeffs \o << <<-1, se.offset>> >>

\* Vector2Norm.__init__
Vector2Norm(args, counter) ==
    [exists |-> TRUE,
     args |-> [j \in 1..Len(args) |-> parse_arg(args[j])],
     aux_var |-> -1,
     id |-> counter]

\* Exponential.__init__
Exponential(x, counter) ==
    [exists |-> TRUE,
     id |-> counter,
     args |-> <<parse_arg(x)>>,
     aux_var |-> -1]

\* the loop of weighted_sum_exp from entry i on: one Exponential per nonzero
\* weight, each with the atom counter's next id
RECURSIVE weighted_atoms(_, _, _, _)
weighted_atoms(c, x, i, counter) ==
    IF i > Len(x) THEN <<>>
    ELSE IF c[i] # 0
         THEN << <<Exponential(x[i], counter), c[i]>> >> \o weighted_atoms(c, x, i + 1, counter + 1)
         ELSE weighted_atoms(c, x, i + 1, counter)

\* weighted_sum_exp(c, x): the one-entry Expression of the weighted atoms, or
\* the error; an error comes before any atom is built
weighted_sum_exp(c, x, counter) ==
    IF \E i \in 1..Len(c) : c[i] < 0 THEN Raise("RuntimeError")
    ELSE IF Len(x) # Len(c) THEN Raise("RuntimeError")
    ELSE Ok(<<ScalarExpression(weighted_atoms(c, x, 1, counter), 0)>>)

\* (mutation: every call takes the counter's next id)
aux_always_new(atom, count) == count

\* `if self.aux_var is None`: the id of the atom's auxiliary variable once the
\* call has allocated it (Variable(shape=()) takes the counter's next id)
aux_after(atom, count) == IF atom.aux_var = -1 THEN count ELSE atom.aux_var
count_after(atom, count) == IF atom.aux_var = -1 THEN count + 1 ELSE count

\* arg[:-1] as lists of ids and of coefficients, and arg[-1][1]
arg_ids(arg) == [j \in 1..(Len(arg) - 1) |-> arg[j][1]]
arg_coeffs(arg) == [j \in 1..(Len(arg) - 1) |-> arg[j][2]]
arg_offset(arg) == arg[Len(arg)][2]

\* the loop of Vector2Norm.epigraph_conic_form over enumerate(self.args),
\* from argument i (1-based; the code's index is i - 1) on
RECURSIVE norm_rows(_, _)
norm_rows(args, i) ==
    IF i > Len(args) THEN [rows |-> <<>>, cols |-> <<>>, vals |-> <<>>]
    ELSE LET rest == norm_rows(args, i + 1)
         IN [rows |-> [j \in 1..(Len(args[i]) - 1) |-> i] \o rest.rows,
             cols |-> arg_ids(args[i]) \o rest.cols,
             vals |-> arg_coeffs(args[i]) \o rest.vals]

\* the offsets Vector2Norm.epigraph_conic_form writes: b = zeros(m), then
\* b[i] = arg[-1][1] for the code's i = 0..len(args)-1
norm_offsets(args) ==
    [j \in 1..(Len(args) + 1) |-> IF j <= Len(args) THEN arg_offset(args[j]) ELSE 0]

\* Vector2Norm.epigraph_conic_form: the tuple it returns, in its order
Vector2Norm_epigraph_conic_form(atom, count) ==
    LET aux == aux_after(atom, count)
        m == Len(atom.args) + 1
        A == norm_rows(atom.args, 1)
        A_rows == <<0>> \o A.rows
        A_cols == <<aux>> \o A.cols
        A_vals == <<1>> \o A.vals
        K == << <<"S", m>> >>
    IN Ok(<<A_rows, A_cols, A_vals, norm_offsets(atom.args), K, aux>>)

\* (mutation: the third coordinate left at the zeros b starts from)
Exponential_epigraph_conic_form_zero_third(atom, count) ==
    LET aux == IF atom.aux_var = -1 THEN count ELSE atom.aux_var
        x == atom.args[1]
        A_rows == [j \in 1..(Len(x) - 1) |-> 0] \o <<1, 2>>
        A_cols == [j \in 1..(Len(x) - 1) |-> x[j][1]]
                     \o <<aux, (IF atom.aux_var = -1 THEN count + 1 ELSE count) - 1>>
        A_vals == [j \in 1..(Len(x) - 1) |-> x[j][2]] \o <<1, 0>>
    IN Ok(<<A_vals, A_rows, A_cols, <<x[Len(x)][2], 0, 0>>, << <<"e", 3>> >>, aux>>)

\* Exponential.epigraph_conic_form: the tuple it returns, in its order
Exponential_epigraph_conic_form(atom, count) ==
    LET aux == aux_after(atom, count)
        x == atom.args[1]
        A_rows == [j \in 1..(Len(x) - 1) |-> 0] \o <<1, 2>>
        A_cols == arg_ids(x) \o <<aux, count_after(atom, count) - 1>>
        A_vals == arg_coeffs(x) \o <<1, 0>>
        b == <<arg_offset(x), 0, 1>>
        K == << <<"e", 3>> >>
    IN Ok(<<A_vals, A_rows, A_cols, b, K, aux>>)

\* norm = Vector2Norm(args)
MakeNorm ==
    /\ norm = NoObj
    /\ \E args \in ExprPool(varCount) : norm' = Vector2Norm(args, atomCount.norm)
    /\ atomCount' = [atomCount EXCEPT !.norm = @ + 1]
    /\ out' = [op |-> "init", who |-> "norm"]
    /\ UNCHANGED <<varCount, val, notAtoms, expo>>

\* expo = Exponential(x)
MakeExp ==
    /\ expo = NoObj
    /\ \E x \in RowPool(varCount) : expo' = Exponential(x, atomCount.exp)
    /\ atomCount' = [atomCount EXCEPT !.exp = @ + 1]
    /\ out' = [op |-> "init", who |-> "exp"]
    /\ UNCHANGED <<varCount, val, notAtoms, norm>>

\* norm.epigraph_conic_form()
NormEpigraph ==
    /\ norm # NoObj
    /\ out' = [op |-> "epigraph_conic_form", who |-> "norm", count |-> count_after(norm, varCount)]
                 @@ Vector2Norm_epigraph_conic_form(norm, varCount)
    /\ norm' = [norm EXCEPT !.aux_var = aux_after(norm, varCount)]
    /\ varCount' = count_after(norm, varCount)
    /\ UNCHANGED <<val, notAtoms, expo, atomCount>>

\* expo.epigraph_conic_form()
ExpEpigraph ==
    /\ expo # NoObj
    /\ out' = [op |-> "epigraph_conic_form", who |-> "exp", count |-> count_after(expo, varCount)]
                 @@ Exponential_epigraph_conic_form(expo, varCount)
    /\ expo' = [expo EXCEPT !.aux_var = aux_after(expo, varCount)]
    /\ varCount' = count_after(expo, varCount)
    /\ UNCHANGED <<val, notAtoms, norm, atomCount>>

\* weighted_sum_exp(c, x): the Exponential counter moves by the number of
\* atoms built
WeightedSumExp ==
    /\ atomCount.exp < MaxAtoms
    /\ \E c \in UNION {[1..L -> WeightVals] : L \in 1..MaxLen}, x \in ExprPool(varCount) :
          LET r == weighted_sum_exp(c, x, atomCount.exp)
              built == IF r.status = "ok" THEN Len(r.ret[1].atoms_to_coeffs) ELSE 0
          IN /\ out' = [op |-> "weighted_sum_exp", c |-> c] @@ r
             /\ atomCount' = [atomCount EXCEPT !.exp = @ + built]
    /\ UNCHANGED <<varCount, val, notAtoms, norm, expo>>

\* a caller allocates variables of its own only up to MaxVars; the atoms'
\* auxiliary variables come on top
NextAtoms == NewVariable \/ MakeNorm \/ MakeExp \/ NormEpigraph \/ ExpEpigraph

SpecAtoms == Init /\ [][NextAtoms]_vars

\* the Exponential atoms alone: built one by one and by weighted_sum_exp
NextWeighted == NewVariable \/ MakeExp \/ WeightedSumExp

SpecWeighted == Init /\ [][NextWeighted]_vars

-----------------------------------------------------------------------------
(* PrimalOrdinarySageCone (constraints/set_membership/ordinary_sage_cone.py) *)

\* the elements of a set of numbers, ascending
RECURSIVE Ascending(_)
Ascending(S) ==
    IF S = {} THEN <<>>
    ELSE LET lo == CHOOSE x \in S : \A y \in S : x <= y
         IN <<lo>> \o Ascending(S \ {lo})

\* np.count_nonzero of a boolean selector
count_nonzero(sel) == Cardinality({j \in 1..Len(sel) : sel[j]})

\* the sizes _initialize_variables gives nu_vars[i] / relent_epi_vars[i] and c_vars[i]
nu_len(e, i) == count_nonzero(e.expcovers[i])
c_len(e, i) == nu_len(e, i) + (IF i \notin e.N_I THEN 1 ELSE 0)

\* the ScalarVariables _initialize_variables allocates in all
RECURSIVE aux_needed(_, _)
aux_needed(e, k) ==
    IF k > Len(e.U_I) THEN 0
    ELSE 2 * nu_len(e, e.U_I[k]) + c_len(e, e.U_I[k]) + aux_needed(e, k + 1)

\* ExpCoverHelper's results for m terms: U_I in ascending order, N_I, and for
\* every i in U_I a selector over the m terms that leaves i itself out
EchPool ==
    [m \in 1..MaxM |->
       {e \in UNION {
                 [U_I : {Ascending(U)},
                  N_I : SUBSET (0..(m - 1)),
                  expcovers : {f \in [U -> [1..m -> BOOLEAN]] : \A i \in U : ~f[i][i + 1]}]
                 : U \in SUBSET (0..(m - 1))}
          : aux_needed(e, 1) <= MaxAux}]

\* Variable(shape=(n,)): the ids of its n ScalarVariables, from the counter on
variable_ids(count, n) == [j \in 1..n |-> count + j - 1]

\* _initialize_variables for m > 2: the loop over U_I from its k-th entry on
RECURSIVE initialize_variables(_, _, _, _)
initialize_variables(e, k, count, acc) ==
    IF k > Len(e.U_I) THEN [acc EXCEPT !.count = count]
    ELSE LET i == e.U_I[k]
             nl == nu_len(e, i)
             count1 == IF nl > 0 THEN count + 2 * nl ELSE count
             cl == c_len(e, i)
         IN initialize_variables(e, k + 1, count1 + cl,
               [count |-> count,
                nu_vars |-> IF nl > 0 THEN acc.nu_vars @@ (i :> variable_ids(count, nl))
                            ELSE acc.nu_vars,
                relent_epi_vars |-> IF nl > 0
                                    THEN acc.relent_epi_vars @@ (i :> variable_ids(count + nl, nl))
                                    ELSE acc.relent_epi_vars,
                c_vars |-> acc.c_vars @@ (i :> variable_ids(count1, cl))])

NoSageVars == [count |-> 0, nu_vars |-> <<>>, relent_epi_vars |-> <<>>, c_vars |-> <<>>]

\* PrimalOrdinarySageCone.__init__ with the presolve's results e
PrimalOrdinarySageCone(c, n, e, count) ==
    LET m == Len(c)
        v == IF m > 2 THEN initialize_variables(e, 1, count, NoSageVars)
             ELSE [NoSageVars EXCEPT !.count = count]
    IN [exists |-> TRUE,
        m |-> m,
        n |-> n,
        c |-> c,
        ech |-> e,
        nu_vars |-> v.nu_vars,
        c_vars |-> v.c_vars,
        relent_epi_vars |-> v.relent_epi_vars,
        age_vectors |-> <<>>,
        count |-> v.count]

\* an Expression entry that is one ScalarVariable
variable_entry(id) == ScalarExpression(<< <<id, 1>> >>, 0)

\* the rank (1-based) of position j among the selected positions of sel
rank_in(sel, j) == Cardinality({p \in 1..j : sel[p]})

\* (mutation: coordinate i always taken from c)
age_own_entry_from_c(s, i) == s.c[i + 1]

\* what _build_aligned_age_vectors writes at ci_expr[i]
age_own_entry(s, i) ==
    IF i \in s.ech.N_I THEN s.c[i + 1]
    ELSE variable_entry(s.c_vars[i][Len(s.c_vars[i])])

\* _build_aligned_age_vectors, for one i of U_I: zeros, then the cover's
\* positions from c_vars[i], then position i
aligned_age_vector(s, i) ==
    LET cover == s.ech.expcovers[i]
    IN [p \in 1..s.m |->
          IF p = i + 1 THEN age_own_entry(s, i)
          ELSE IF cover[p] THEN variable_entry(s.c_vars[i][rank_in(cover, p)])
          ELSE ScalarExpression(<<>>, 0)]

\* _build_aligned_age_vectors
build_aligned_age_vectors(s) ==
    [i \in {s.ech.U_I[k] : k \in 1..Len(s.ech.U_I)} |-> aligned_age_vector(s, i)]

\* `a, b, c, d, e = t`: unpacking a tuple into n names
unpack(t, n) == IF Len(t) = n THEN Ok(t) ELSE Raise("ValueError")

zero_expr(m) == [j \in 1..m |-> ScalarExpression(<<>>, 0)]

\* `self.c >= 0` / `0 <= entry`, then con.epigraph_checked = True
checked_geq_zero(x) ==
    [ElementwiseConstraint(x, zero_expr(Len(x)), ">=") EXCEPT !.epigraph_checked = TRUE]

\* np.exp(1) * x for a number x: the number e x, kept as the multiple of e
\* it is (0 stays 0)
times_e(x) == IF x = 0 THEN 0 ELSE [e_times |-> x]

\* np.exp(1) * se for a ScalarExpression: every coefficient and the offset
\* multiplied by e
scalar_times_e(se) ==
    ScalarExpression([j \in 1..Len(se.atoms_to_coeffs) |->
                         <<se.atoms_to_coeffs[j][1], times_e(se.atoms_to_coeffs[j][2])>>],
                     times_e(se.offset))

\* the fragments conic_form collects for one i of U_I (m > 2)
age_cone_data(s, ages, i, count) ==
    LET idx_set == s.ech.expcovers[i]
        cover == Ascending({p \in 1..s.m : idx_set[p]})
    IN IF \E p \in 1..s.m : idx_set[p]
       THEN << [kind |-> "sum_relent",
                x |-> s.nu_vars[i],
                y |-> [r \in 1..Len(cover) |-> scalar_times_e(ages[i][cover[r]])],
                z |-> scalar_neg(ages[i][i + 1]),
                epi |-> s.relent_epi_vars[i]],
               [kind |-> "mat_times_vecvar",
                x |-> s.nu_vars[i],
                b |-> [r \in 1..s.n |-> 0],
                K |-> << <<"0", s.n>> >>] >>
       ELSE << [kind |-> "elementwise",
                tuple |-> Elementwise_conic_form(checked_geq_zero(<<ages[i][i + 1]>>), count).ret] >>

RECURSIVE age_cones_from(_, _, _, _)
age_cones_from(s, ages, k, count) ==
    IF k > Len(s.ech.U_I) THEN <<>>
    ELSE age_cone_data(s, ages, s.ech.U_I[k], count) \o age_cones_from(s, ages, k + 1, count)

\* aff.vstack(list): numpy's vstack over Expressions, which takes no empty list
aff_vstack(list) == IF list = <<>> THEN Raise("ValueError") ELSE Ok(list)

\* _age_vectors_sum_to_c: one "+" cone over the coordinates outside N_I, for
\* the age vectors (as columns) and c, both cut down to these coordinates
age_vectors_sum_to_c(s) ==
    LET nonconst_locs == Ascending({p \in 1..s.m : (p - 1) \notin s.ech.N_I})
        ages == build_aligned_age_vectors(s)
        aux_c_vars == aff_vstack([k \in 1..Len(s.ech.U_I) |-> ages[s.ech.U_I[k]]])
        rows == Len(nonconst_locs)
    IN IF aux_c_vars.status = "raise" THEN aux_c_vars
       ELSE Ok([kind |-> "columns_sum_leq_vec",
                mat |-> [r \in 1..rows |->
                           [k \in 1..Len(s.ech.U_I) |-> aux_c_vars.ret[k][nonconst_locs[r]]]],
                vec |-> [r \in 1..rows |-> s.c[nonconst_locs[r]]],
                K |-> << <<"+", rows>> >>])

\* PrimalOrdinarySageCone.conic_form: what it returns or raises
Sage_conic_form(s, count) ==
    IF s.m > 2
    THEN LET ages == build_aligned_age_vectors(s)
             sum_to_c == age_vectors_sum_to_c(s)
         IN IF sum_to_c.status = "raise" THEN sum_to_c
            ELSE Ok(age_cones_from(s, ages, 1, count) \o <<sum_to_c.ret>>)
    ELSE LET r == Elementwise_conic_form(checked_geq_zero(s.c), count)
             five == unpack(r.ret, 5)
         IN IF five.status = "ok" THEN Ok(<<five.ret>>) ELSE five

\* np.linalg.norm(x, ord) of a vector: the number, or the number under a root
vector_norm(x, ord) ==
    LET SumAbs[k \in 0..Len(x)] == IF k = 0 THEN 0 ELSE SumAbs[k - 1] + Abs(x[k])
        SumSq[k \in 0..Len(x)] == IF k = 0 THEN 0 ELSE SumSq[k - 1] + x[k] * x[k]
        MaxAbs[k \in 0..Len(x)] ==
            IF k = 0 THEN 0 ELSE IF Abs(x[k]) > MaxAbs[k - 1] THEN Abs(x[k]) ELSE MaxAbs[k - 1]
    IN IF ord = "inf" THEN [root |-> FALSE, of |-> MaxAbs[Len(x)]]
       ELSE IF ord = "1" THEN [root |-> FALSE, of |-> SumAbs[Len(x)]]
       ELSE [root |-> TRUE, of |-> SumSq[Len(x)]]

NormOrds == {"inf", "1", "2"}

\* (mutation: reshape hands back a copy)
reshape_is_copy == FALSE

\* c.reshape((-1,)) of a fresh 1-d array is a view: it shares c's memory
reshape_is_view == TRUE

\* Problem(CL_MIN, t, cons).solve() for the two constraints of project(),
\* as far as this core takes part in it: the constraints are compiled in
\* their order, the epigraph of the norm in `vector2norm(item - c) <= t`
\* takes one auxiliary ScalarVariable, and temp_con.conic_form() is called.
\* The solve itself is the solver's; its value is kept as the name
\* "prob.value".
Problem_solve(temp_con, count) ==
    LET compiled == Sage_conic_form(temp_con, count + 1)
    IN IF compiled.status = "raise" THEN Raise(compiled.exc) @@ [count |-> count + 1]
       ELSE Ok("prob.value") @@ [count |-> count + 1]

\* PrimalOrdinarySageCone.project(item, alpha), alpha with m rows and n
\* columns, e the presolve's results for the cone it builds: the outcome, the
\* ScalarVariable counter and the Vector2Norm counter after the call.
Sage_project(item, n, e, count, norms) ==
    IF item.kind = "method" THEN Raise("TypeError") @@ [count |-> count, norms |-> norms]
    ELSE IF \A j \in 1..Len(item.of) : item.of[j] >= 0
    THEN Ok(0) @@ [count |-> count, norms |-> norms]
    ELSE LET size == Len(item.of)
             c == [j \in 1..size |-> variable_entry(count + j - 1)]
             t == count + size
             temp_con == PrimalOrdinarySageCone(c, n, e, t + 1)
         IN Problem_solve(temp_con, temp_con.count) @@ [norms |-> norms + 1]

\* _age_violation(i, norm_ord, c_i), second branch (line 171): float() of
\* the value of c_vars[i], which takes an array of one entry only
float_raises(s, i) ==
    /\ \A p \in 1..s.m : ~s.ech.expcovers[i][p]
    /\ Len(s.c_vars[i]) # 1

\* scipy's rel_entr(x, y) is infinite unless x > 0 and y > 0, or x = 0 and
\* y >= 0
rel_entr_is_inf(x, y) == ~((x > 0 /\ y > 0) \/ (x = 0 /\ y >= 0))

\* _age_violation(i, norm_ord, c_i), first branch (lines 159-169): whether
\* the violation is infinite; x_i is the value of nu_vars[i] with its
\* negative entries set to 0, y_i is e times c_i over the cover
age_violation_is_inf(s, v, i) ==
    LET idx_set == s.ech.expcovers[i]
    IN \E p \in 1..s.m :
          /\ idx_set[p]
          /\ LET nu == v[s.nu_vars[i][rank_in(idx_set, p)]]
                 x_i == IF nu < 0 THEN 0 ELSE nu
                 c_i == scalar_value(s.age_vectors[i][p], v)
             IN rel_entr_is_inf(x_i, c_i)

\* PrimalOrdinarySageCone.violation(norm_ord, rough) at the variables' values
\* v, e the presolve's results for the cone project() builds: the outcome and
\* the two counters after the call.  For m > 2 and rough, a total that is
\* returned is kept as the name "total_viol".
Sage_violation(s, v, ord, rough, e, count, norms, reading) ==
    LET c == value_attribute(s.c, v, reading)
        same == [count |-> count, norms |-> norms]
        U_I == s.ech.U_I
    IN IF s.m > 2
       THEN IF ~rough THEN Sage_project(c, s.n, e, count, norms)
            \* lines 250-251: the sum of the age vectors' values, and c less it
            ELSE IF c.kind = "method" THEN Raise("TypeError") @@ same
            \* line 263: np.max of an array of no entries
            ELSE IF U_I = <<>> THEN Raise("ValueError") @@ same
            \* line 257: age_vectors[i] before conic_form() has built it
            ELSE IF s.age_vectors = <<>> THEN Raise("KeyError") @@ same
            ELSE IF \E k \in 1..Len(U_I) : float_raises(s, U_I[k])
                 THEN Raise("TypeError") @@ same
            \* lines 259-261: an infinite age violation calls project(c, alpha)
            ELSE IF \E k \in 1..Len(U_I) : age_violation_is_inf(s, v, U_I[k])
                 THEN LET dist == Sage_project(c, s.n, e, count, norms)
                      IN IF dist.status = "raise" THEN dist
                         ELSE Ok("total_viol") @@ [count |-> dist.count, norms |-> dist.norms]
            ELSE Ok("total_viol") @@ same
       ELSE IF c.kind = "method" THEN Raise("AttributeError") @@ same
       ELSE LET residual == [j \in 1..Len(c.of) |-> IF c.of[j] >= 0 THEN 0 ELSE c.of[j]]
                c1 == IF reshape_is_view THEN residual ELSE c.of
            IN Ok(vector_norm(c1, ord)) @@ same

\* c with its first j entries the variables x_0 .. x_(j-1) and the rest the
\* constant 1, for every j the allocated variables allow
PrefixVectors(m, n) ==
    {[k \in 1..m |-> IF k <= j THEN variable_entry(k - 1) ELSE ScalarExpression(<<>>, 1)] :
        j \in {i \in 0..m : i <= n}}

\* c with every entry a constant or a variable
RowVectors(m, n) == [1..m -> RowPool(n)]

\* the presolve results with no AGE cone to build
EmptyCovers == [m \in 1..MaxM |-> {e \in EchPool[m] : e.U_I = <<>>}]

\* sage = PrimalOrdinarySageCone(c, alpha, name): alpha has m rows, m among
\* ms, and n columns, n among ns; c is one of vectors[m] and the presolve
\* result one of covers[m]
MakeSageWith(ms, ns, vectors, covers) ==
    /\ sage = NoObj
    /\ \E m \in ms, n \in ns :
          \E c \in vectors[m], e \in covers[m] :
             LET s == PrimalOrdinarySageCone(c, n, e, varCount)
             IN /\ sage' = [k \in DOMAIN s \ {"count"} |-> s[k]]
                /\ varCount' = s.count
    /\ out' = [op |-> "init", who |-> "sage"]
    /\ UNCHANGED <<val, notSage>>

\* sage.conic_form()
SageConicForm ==
    /\ sage # NoObj
    /\ out' = [op |-> "sage_conic_form", who |-> "sage", count |-> varCount]
                 @@ Sage_conic_form(sage, varCount)
    /\ sage' = IF sage.m > 2
               THEN [sage EXCEPT !.age_vectors = build_aligned_age_vectors(sage)]
               ELSE sage
    /\ UNCHANGED <<varCount, val, notSage>>

\* the presolve results whose N_I lies within U_I (what lies outside has no
\* part in what the constructor allocates)
InnerCovers ==
    [m \in 1..MaxM |->
       {e \in EchPool[m] : e.N_I \subseteq {e.U_I[k] : k \in 1..Len(e.U_I)}}]

\* the presolve results taken for the cone project() builds inside
\* violation(): its c is a vector of free variables, so no index is
\* structurally trivial; U_I with no index or with every index, and the
\* covers kept empty
TempCovers(m) ==
    IF m > 2
    THEN {[U_I |-> Ascending(U), N_I |-> {},
           expcovers |-> [i \in U |-> [p \in 1..m |-> FALSE]]] : U \in {{}, 0..(m - 1)}}
    ELSE {[U_I |-> <<>>, N_I |-> {}, expcovers |-> <<>>]}

\* the ids of the ScalarVariables in a dict of Variables
ids_of(d) == UNION {{d[i][k] : k \in 1..Len(d[i])} : i \in DOMAIN d}

\* the solver's write-back for the variables of sage: the variables of c take
\* every value, those of nu_vars and c_vars a negative or a positive one, and
\* those of relent_epi_vars, which violation() never reads, the value 1
SageSetValues ==
    /\ \E a \in Assignments(varCount) :
          /\ \A id \in ids_of(sage.nu_vars) \cup ids_of(sage.c_vars) : a[id] \in {-1, 1}
          /\ \A id \in ids_of(sage.relent_epi_vars) : a[id] = 1
          /\ val' = a
    /\ UNCHANGED <<varCount, ewVars, atomVars, sage, out>>

\* sage.violation(norm_ord, rough), once every variable has its value; a call
\* that goes through project() moves the counters
SageViolation ==
    /\ sage # NoObj
    /\ varCount <= MaxVars + MaxAux
    /\ DOMAIN val = 0..(varCount - 1)
    /\ \E ord \in NormOrds, rough \in BOOLEAN, e \in TempCovers(sage.m),
          reading \in ValueReadings :
          \E r \in {Sage_violation(sage, val, ord, rough, e, varCount, atomCount.norm, reading)} :
             /\ out' = [op |-> "sage_violation", who |-> "sage", at |-> val,
                        ord |-> ord, rough |-> rough, value_is |-> reading]
                          @@ [k \in DOMAIN r \ {"count", "norms"} |-> r[k]]
             /\ varCount' = r.count
             /\ atomCount' = [atomCount EXCEPT !.norm = r.norms]
    /\ UNCHANGED <<val, sage, con, con2, hist, norm, expo>>

\* PrimalOrdinarySageCone.project(item, alpha), a static method: item an
\* array of m numbers.  A call keeps nothing but the counters, so one call is
\* followed per behaviour, from every value of the variable counter.
Project ==
    /\ out = NoOut
    /\ \E m \in 1..MaxM, n \in {1} :
          \E item \in [1..m -> ValueVals], e \in InnerCovers[m] :
             \E r \in {Sage_project(ndarray(item), n, e, varCount, atomCount.norm)} :
                /\ out' = [op |-> "project", item |-> item]
                             @@ [k \in DOMAIN r \ {"count", "norms"} |-> r[k]]
                /\ varCount' = r.count
                /\ atomCount' = [atomCount EXCEPT !.norm = r.norms]
    /\ UNCHANGED <<val, sage, con, con2, hist, norm, expo>>

\* construction and compilation, for every m
NextSage ==
    \/ (sage = NoObj /\ NewVariable)
    \/ MakeSageWith(1..MaxM, 1..MaxLen,
                    [m \in 1..MaxM |-> PrefixVectors(m, varCount)], EchPool)
    \/ SageConicForm

SpecSage == Init /\ [][NextSage]_vars

\* the presolve results of the cones violation() is called on: no AGE cone
\* to build, or (m > 2) the one of index 0, inside or outside N_I, with an
\* empty cover or with the cover {1}
ViolCovers ==
    [m \in 1..MaxM |->
       EmptyCovers[m] \cup
          (IF m > 2
           THEN {[U_I |-> <<0>>, N_I |-> N,
                  expcovers |-> (0 :> [p \in 1..m |-> p = 2 /\ covered])] :
                    N \in {{}, {0}}, covered \in BOOLEAN}
           ELSE {})]

\* values and violation(), before and after conic_form() has built the age
\* vectors: the variables receive their values once, then violation() is
\* called on them;
\* the larger cones take their c from the smaller pool
NextSageViol ==
    \/ (sage = NoObj /\ NewVariable)
    \/ MakeSageWith(1..MaxM, {1},
                    [m \in 1..MaxM |-> IF m > 2 THEN PrefixVectors(m, varCount)
                                       ELSE RowVectors(m, varCount)],
                    ViolCovers)
    \/ (sage # NoObj /\ sage.m > 2 /\ out.op = "init" /\ SageConicForm)
    \/ (sage # NoObj /\ out.op # "sage_violation" /\ DOMAIN val # 0..(varCount - 1)
           /\ SageSetValues)
    \/ SageViolation

SpecSageViol == Init /\ [][NextSageViol]_vars

\* the static projection, called on arrays of numbers
NextProject == NewVariable \/ Project

SpecProject == Init /\ [][NextProject]_vars

-----------------------------------------------------------------------------
(* Claims about ElementwiseConstraint *)

IsInequality(c) == c # NoObj /\ c.initial_operator \in {"<=", ">="}

\* C1: conic_form() raises and emits nothing while epigraph_checked is false;
\* the flag is true right after construction for "==" and false for "<=" and
\* ">="; it turns true only when a caller sets it; so an inequality constraint
\* never emits a fragment before its flag has been set.
C1_NoFragmentBeforeFlag ==
    /\ (out.op = "init" /\ out.who = 1 /\ ~hist[1].flag_set)
          => (con.epigraph_checked <=> con.initial_operator = "==")
    /\ (con # NoObj /\ con.initial_operator # "==" /\ con.epigraph_checked)
          => hist[1].flag_set
    /\ (out.op = "conic_form" /\ out.who = 1 /\ ~con.epigraph_checked)
          => (out.status = "raise" /\ "ret" \notin DOMAIN out)
    /\ (IsInequality(con) /\ hist[1].emitted) => hist[1].flag_set

C1_Witness ==
    /\ IsInequality(con)
    /\ hist[1].flag_set
    /\ hist[1].emitted
    /\ out.op = "conic_form"
    /\ out.status = "ok"

\* C2: a token outside {"==", "<=", ">="} raises at construction, so no
\* constraint object built from such a token exists.
C2_BadTokenRaises ==
    con # NoObj => con.initial_operator \in ELEMENTWISE_OPS

\* the entries of a fragment at (row, col), accumulated
Accumulated(f, row, col) ==
    LET S[k \in 0..Len(f[1])] ==
            IF k = 0 THEN 0
            ELSE S[k - 1] + (IF f[2][k] = row /\ f[3][k] = col THEN f[1][k] ELSE 0)
    IN S[Len(f[1])]

FragmentCols(f) == {f[3][k] : k \in 1..Len(f[3])}

\* a fragment f states exactly -expr in the cone (tag, m)
NegatedExpression(f, c) ==
    LET m == Len(c.expr)
    IN /\ f[5] = << <<(IF c.operator = "==" THEN "0" ELSE "+"), m>> >>
       /\ f[4] = [i \in 1..m |-> -c.expr[i].offset]
       /\ \A i \in 1..m : \A col \in FragmentCols(f) \cup 0..MaxVars :
             Accumulated(f, i - 1, col) = -coeff_sum(c.expr[i].atoms_to_coeffs, col)

\* C4: with the flag true, conic_form() emits exactly the negated expression
\* in one cone "0" or "+" of size m, and every emitted column index, the
\* placeholder of an atom-free row included, is the id of an allocated
\* variable.
C4_NegatedExpressionAllocatedColumns ==
    (out.op = "conic_form" /\ out.who = 1 /\ out.status = "ok")
       => /\ NegatedExpression(out.ret, con)
          /\ \A col \in FragmentCols(out.ret) : col \in 0..(out.count - 1)

\* C5: violation() never raises; it is 0 at an assignment that satisfies the
\* constraint and otherwise the default norm of max(0, lhs-rhs) for "<=",
\* min(0, lhs-rhs) for ">=", abs(lhs-rhs) for "==".
C5_ViolationMagnitude ==
    (out.op = "violation" /\ con.initial_operator \in ELEMENTWISE_OPS)
       => LET d == expr_value(expr_sub(con.lhs, con.rhs), out.at)
              residual == [i \in 1..Len(d) |->
                             IF con.initial_operator = "<=" THEN (IF d[i] > 0 THEN d[i] ELSE 0)
                             ELSE IF con.initial_operator = ">=" THEN (IF d[i] < 0 THEN -d[i] ELSE 0)
                             ELSE Abs(d[i])]
          IN /\ out.status = "ok"
             /\ out.ret = default_norm(residual)

\* con2 was built from the operands of con, exchanged, as "<=" against ">="
IsSwappedPair ==
    /\ con # NoObj
    /\ con2 # NoObj
    /\ con.initial_operator = ">="
    /\ con2.initial_operator = "<="
    /\ con2.lhs = con.rhs
    /\ con2.rhs = con.lhs

\* C3: ElementwiseConstraint(lhs, rhs, ">=") and ElementwiseConstraint(rhs,
\* lhs, "<=") hold the same canonical expr rhs - lhs and the same canonical
\* operator "<=", and with the flag set on both, conic_form() returns the
\* same coefficients, rows, columns, offset and cones for the two.
C3_SwappedPairCompilesAlike ==
    IsSwappedPair =>
       /\ con.expr = expr_sub(con.rhs, con.lhs)
       /\ con2.expr = con.expr
       /\ con.operator = "<="
       /\ con2.operator = "<="
       /\ (con.epigraph_checked /\ con2.epigraph_checked)
             => LET f == Elementwise_conic_form(con, varCount)
                    g == Elementwise_conic_form(con2, varCount)
                IN /\ f.status = "ok"
                   /\ g = f
                   /\ (out.op = "conic_form" /\ out.status = "ok" /\ out.count = varCount)
                         => out.ret = f.ret

C3_Witness ==
    /\ IsSwappedPair
    /\ con.epigraph_checked
    /\ con2.epigraph_checked
    /\ hist[1].emitted
    /\ hist[2].emitted
    /\ out.op = "conic_form"
    /\ out.who = 2
    /\ Len(con.expr) = 2
    /\ Len(con.expr[1].atoms_to_coeffs) = 2
    /\ con.expr[2].atoms_to_coeffs = <<>>

-----------------------------------------------------------------------------
(* Claims about the fragments of the atoms *)

ConeSizeSum(K) ==
    LET S[k \in 0..Len(K)] == IF k = 0 THEN 0 ELSE S[k - 1] + K[k][2]
    IN S[Len(K)]

\* a tuple read as (coefficient values, row indices, column indices, offset
\* vector, cone list, auxiliary variable or empty)
FragmentShape(f) ==
    /\ Len(f) = 6
    /\ Len(f[1]) = Len(f[2])
    /\ Len(f[2]) = Len(f[3])
    /\ \A k \in 1..Len(f[2]) : f[2][k] \in 0..(Len(f[4]) - 1)
    /\ ConeSizeSum(f[5]) = Len(f[4])

\* C6: every fragment the elementwise constraint and the two atoms return is
\* (values, rows, columns, offset, cones, auxiliary) in this order, with
\* coordinate lists of one length, rows within the offset vector and cone
\* sizes adding up to its length.
C6_FragmentShape ==
    (out.op \in {"conic_form", "epigraph_conic_form"} /\ out.status = "ok")
       => FragmentShape(out.ret)

\* C10: Vector2Norm's fragment is one cone "S" of size k+1 whose row 0 is the
\* auxiliary variable (coefficient 1, offset 0) and whose row j+1 is the
\* affine argument x_j: its coefficients at its variables' ids, its constant
\* as the offset of row j+1.
C10_SecondOrderConeRows ==
    (out.op = "epigraph_conic_form" /\ out.who = "norm" /\ out.status = "ok")
       => LET f == out.ret
              k == Len(norm.args)
              cols == 0..out.count
          IN /\ f[5] = << <<"S", k + 1>> >>
             /\ f[6] = norm.aux_var
             /\ Len(f[4]) = k + 1
             /\ f[4][1] = 0
             /\ \A col \in cols :
                   Accumulated(f, 0, col) = (IF col = norm.aux_var THEN 1 ELSE 0)
             /\ \A j \in 1..k :
                   /\ f[4][j + 1] = arg_offset(norm.args[j])
                   /\ \A col \in cols :
                         Accumulated(f, j, col)
                            = coeff_sum(SubSeq(norm.args[j], 1, Len(norm.args[j]) - 1), col)

-----------------------------------------------------------------------------
(* Claims about PrimalOrdinarySageCone *)

\* C7: for m <= 2, conic_form() completes without error and returns exactly
\* one fragment, whose cone list is the single cone "+" of size m and whose
\* row k states c[k] >= 0.
C7_DegenerateConeCompiles ==
    (out.op = "sage_conic_form" /\ sage.m <= 2)
       => /\ out.status = "ok"
          /\ Len(out.ret) = 1
          /\ LET f == out.ret[1]
             IN /\ f[5] = << <<"+", sage.m>> >>
                /\ f[4] = [k \in 1..sage.m |-> sage.c[k].offset]
                /\ \A k \in 1..sage.m : \A col \in FragmentCols(f) \cup 0..MaxVars :
                      Accumulated(f, k - 1, col) = coeff_sum(sage.c[k].atoms_to_coeffs, col)

\* the negative part of a vector of numbers
NegativePart(x) == [j \in 1..Len(x) |-> IF x[j] < 0 THEN x[j] ELSE 0]

\* C8: for m <= 2, violation() is the norm of the negative part of the value
\* of c: 0 exactly when every entry of c is nonnegative, nothing from the
\* nonnegative entries, and 1 at c = [-1, 2].  `self.c.value` is taken as
\* ordinary_sage_cone.py reads it, as data.
C8_ViolationIsNormOfNegativePart ==
    (out.op = "sage_violation" /\ sage.m <= 2 /\ out.value_is = "property")
       => LET cv == expr_value(sage.c, out.at)
          IN /\ out.status = "ok"
             /\ out.ret = vector_norm(NegativePart(cv), out.ord)
             /\ (out.ret.of = 0 <=> \A j \in 1..Len(cv) : cv[j] >= 0)
             /\ cv = <<-1, 2>> => out.ret.of = 1

C8_Witness ==
    /\ out.op = "sage_violation"
    /\ out.value_is = "property"
    /\ out.status = "ok"
    /\ sage.m = 2
    /\ expr_value(sage.c, out.at) = <<-1, 2>>
    /\ out.ret.of = 1

\* the members of U_I
U_I_set(s) == {s.ech.U_I[k] : k \in 1..Len(s.ech.U_I)}

\* the positions (1-based) of the cover of i, ascending
cover_positions(s, i) == Ascending({p \in 1..s.m : s.ech.expcovers[i][p]})

\* C9: for m > 2 and every i in U_I, nu_vars[i] and relent_epi_vars[i] exist
\* exactly when the cover of i is nonempty and then have the cover's count as
\* size; c_vars[i] has that count plus one if i is not in N_I, else that
\* count; and once the age vectors are built, age_vectors[i] has length m, is
\* zero outside the cover and i, holds c_vars[i] in order at the cover's
\* positions, and at i holds c[i] if i is in N_I, else the last slot of
\* c_vars[i].
C9_AgeVariablesAndVectors ==
    (sage # NoObj /\ sage.m > 2)
       => \A i \in U_I_set(sage) :
             LET cover == cover_positions(sage, i)
                 k == Len(cover)
             IN /\ (i \in DOMAIN sage.nu_vars) <=> (k > 0)
                /\ (i \in DOMAIN sage.relent_epi_vars) <=> (k > 0)
                /\ (k > 0) => /\ Len(sage.nu_vars[i]) = k
                              /\ Len(sage.relent_epi_vars[i]) = k
                /\ i \in DOMAIN sage.c_vars
                /\ Len(sage.c_vars[i]) = (IF i \in sage.ech.N_I THEN k ELSE k + 1)
                /\ (out.op = "sage_conic_form")
                      => /\ DOMAIN sage.age_vectors = U_I_set(sage)
                         /\ LET age == sage.age_vectors[i]
                            IN /\ Len(age) = sage.m
                               /\ \A p \in 1..sage.m :
                                     (p # i + 1 /\ \A r \in 1..k : cover[r] # p)
                                        => age[p] = ScalarExpression(<<>>, 0)
                               /\ \A r \in 1..k :
                                     age[cover[r]] = ScalarExpression(<< <<sage.c_vars[i][r], 1>> >>, 0)
                               /\ age[i + 1] =
                                     (IF i \in sage.ech.N_I THEN sage.c[i + 1]
                                      ELSE ScalarExpression(
                                              << <<sage.c_vars[i][Len(sage.c_vars[i])], 1>> >>, 0))

C9_Witness ==
    /\ sage # NoObj
    /\ sage.m > 2
    /\ out.op = "sage_conic_form"
    /\ \E i \in U_I_set(sage) :
          /\ i \notin sage.ech.N_I
          /\ Len(cover_positions(sage, i)) > 0
          /\ Len(sage.c_vars[i]) = Len(cover_positions(sage, i)) + 1
          /\ sage.age_vectors[i][i + 1] # sage.c[i + 1]
    /\ \E i \in U_I_set(sage) :
          /\ i \in sage.ech.N_I
          /\ Len(cover_positions(sage, i)) > 0
          /\ sage.age_vectors[i][i + 1] = sage.c[i + 1]

-----------------------------------------------------------------------------
(* Claims about Exponential and about the atoms' auxiliary variables *)

\* the y on the boundary of the exponential cone {(x, y, z) : z e^(x/z) <= y}
\* where it takes no exponential to say it: at x = 0 it is z
exp_cone_boundary(x, z) == IF x = 0 THEN z ELSE -1

\* C11: Exponential's fragment is one cone "e" of size 3 whose row 0 is the
\* affine argument x (its coefficients at its variables' ids, its constant as
\* offset), whose row 1 is the auxiliary variable (coefficient 1, offset 0)
\* and whose row 2 is the constant 1 (offset 1, coefficients all zero); for x
\* the zero expression the auxiliary value on the boundary is 1.
C11_ExponentialConeRows ==
    (out.op = "epigraph_conic_form" /\ out.who = "exp")
       => LET f == out.ret
              x == expo.args[1]
              terms == SubSeq(x, 1, Len(x) - 1)
              cols == FragmentCols(f) \cup 0..out.count
          IN /\ out.status = "ok"
             /\ f[5] = << <<"e", 3>> >>
             /\ f[6] = expo.aux_var
             /\ f[4] = <<x[Len(x)][2], 0, 1>>
             /\ \A k \in 1..Len(f[2]) : f[2][k] \in 0..2
             /\ \A col \in cols :
                   /\ Accumulated(f, 0, col) = coeff_sum(terms, col)
                   /\ Accumulated(f, 1, col) = (IF col = expo.aux_var THEN 1 ELSE 0)
             /\ \A k \in 1..Len(f[2]) : f[2][k] = 2 => f[1][k] = 0
             /\ (terms = <<>> /\ f[4][1] = 0) => exp_cone_boundary(f[4][1], f[4][3]) = 1

C11_Witness ==
    /\ out.op = "epigraph_conic_form"
    /\ out.who = "exp"
    /\ out.status = "ok"
    /\ Len(expo.args[1]) = 1
    /\ expo.args[1][1][2] = 0
    /\ exp_cone_boundary(out.ret[4][1], out.ret[4][3]) = 1

\* the atom has been lifted: it holds an auxiliary variable
Lifted(atom) == atom # NoObj /\ atom.aux_var # -1

\* the step is a call of epigraph_conic_form() on the atom named who (a
\* step that moves the counter and leaves the last outcome as it was is an
\* ordinary allocation)
IsEpigraphCall(who) ==
    /\ out'.op = "epigraph_conic_form"
    /\ out'.who = who
    /\ (out' = out) => (varCount' = varCount)

\* what one step may do to an atom's auxiliary variable and to the counter:
\* a lifted atom keeps its id and a call on it leaves the counter alone; an
\* atom being lifted takes the counter's value, which no variable has yet,
\* and moves the counter by one
LiftsOnce(atom, atomNext, who) ==
    /\ Lifted(atom) => (Lifted(atomNext) /\ atomNext.aux_var = atom.aux_var)
    /\ (Lifted(atom) /\ IsEpigraphCall(who))
          => (varCount' = varCount /\ out'.ret[6] = atom.aux_var)
    /\ (~Lifted(atom) /\ Lifted(atomNext))
          => /\ IsEpigraphCall(who)
             /\ atomNext.aux_var = varCount
             /\ varCount' = varCount + 1
             /\ out'.ret[6] = varCount
    /\ (atom # NoObj /\ IsEpigraphCall(who)) => Lifted(atomNext)

\* the ids in use are those below the counter, and two atoms' differ
AuxIdsApart ==
    /\ Lifted(norm) => norm.aux_var \in 0..(varCount - 1)
    /\ Lifted(expo) => expo.aux_var \in 0..(varCount - 1)
    /\ (Lifted(norm) /\ Lifted(expo)) => norm.aux_var # expo.aux_var

\* C12: an atom allocates its auxiliary variable on its first
\* epigraph_conic_form() call only (the counter moves by one on that call and
\* not at all on a later one), every call returns the same id, two atoms
\* never share an id, and an id given to an auxiliary variable is never one
\* an ordinary variable has or gets: every allocation, ordinary or not, takes
\* the counter's value and moves the counter past it.
C12_AuxiliaryAllocatedOnce ==
    /\ []AuxIdsApart
    /\ [][/\ LiftsOnce(norm, norm', "norm")
          /\ LiftsOnce(expo, expo', "exp")
          /\ varCount' \in {varCount, varCount + 1}
          /\ (varCount' = varCount + 1 /\ ~IsEpigraphCall("norm") /\ ~IsEpigraphCall("exp"))
                => (norm' = norm /\ expo' = expo)]_vars

C12_Witness ==
    /\ Lifted(norm)
    /\ Lifted(expo)
    /\ norm.aux_var = 0
    /\ expo.aux_var = 2
    /\ varCount = 3
    /\ out.op = "epigraph_conic_form"
    /\ out.who = "norm"
    /\ out.ret[6] = 0

-----------------------------------------------------------------------------
(* Claims about the fragments of PrimalOrdinarySageCone *)

\* alpha = [[0,0],[1,0],[0,1]] with c[0] free and c[1] = c[2] = 1: one AGE
\* cone, for index 0, covered by 1 and 2, which are structurally trivial
IsSimplexScenario(s) ==
    /\ s.m = 3
    /\ s.n = 2
    /\ s.c = <<ScalarExpression(<< <<0, 1>> >>, 0), ScalarExpression(<<>>, 1), ScalarExpression(<<>>, 1)>>
    /\ s.ech.U_I = <<0>>
    /\ s.ech.N_I = {1, 2}
    /\ s.ech.expcovers[0] = <<FALSE, TRUE, TRUE>>

\* C13: for m > 2, conic_form() returns, going through U_I in order, for
\* each i with a nonempty cover a relative-entropy fragment immediately
\* followed by a "0" fragment with n rows, and for each i with an empty cover
\* one "+" fragment of one row stating age_vector[i][i] >= 0; then, last, one
\* "+" fragment with m - |N_I| rows stating that the age vectors sum to at
\* most c on the coordinates outside N_I.  In the simplex scenario that is
\* one AGE cone and a last fragment of one row, on c[0].
C13_FragmentOrder ==
    (out.op = "sage_conic_form" /\ sage.m > 2)
       => LET U == sage.ech.U_I
              f == out.ret
              width(k) == IF Len(cover_positions(sage, U[k])) > 0 THEN 2 ELSE 1
              start[k \in 1..(Len(U) + 1)] == IF k = 1 THEN 0 ELSE start[k - 1] + width(k - 1)
              outside == Ascending({p \in 1..sage.m : (p - 1) \notin sage.ech.N_I})
              last == f[Len(f)]
          IN /\ out.status = "ok"
             /\ Len(f) = start[Len(U) + 1] + 1
             /\ \A k \in 1..Len(U) :
                   LET i == U[k]
                       cover == cover_positions(sage, i)
                       age == sage.age_vectors[i]
                       a == start[k] + 1
                   IN IF Len(cover) > 0
                      THEN /\ f[a].kind = "sum_relent"
                           /\ f[a].x = sage.nu_vars[i]
                           /\ f[a].y = [r \in 1..Len(cover) |->
                                          ScalarExpression(
                                             << <<sage.c_vars[i][r], [e_times |-> 1]>> >>, 0)]
                           /\ f[a].z = scalar_neg(age[i + 1])
                           /\ f[a].epi = sage.relent_epi_vars[i]
                           /\ f[a + 1].kind = "mat_times_vecvar"
                           /\ f[a + 1].x = sage.nu_vars[i]
                           /\ f[a + 1].K = << <<"0", sage.n>> >>
                           /\ Len(f[a + 1].b) = sage.n
                      ELSE /\ f[a].kind = "elementwise"
                           /\ f[a].tuple[5] = << <<"+", 1>> >>
                           /\ f[a].tuple[4] = <<age[i + 1].offset>>
                           /\ \A col \in FragmentCols(f[a].tuple) \cup 0..out.count :
                                 Accumulated(f[a].tuple, 0, col)
                                    = coeff_sum(age[i + 1].atoms_to_coeffs, col)
             /\ last.kind = "columns_sum_leq_vec"
             /\ last.K = << <<"+", sage.m - Cardinality(sage.ech.N_I)>> >>
             /\ last.vec = [r \in 1..Len(outside) |-> sage.c[outside[r]]]
             /\ last.mat = [r \in 1..Len(outside) |->
                              [k \in 1..Len(U) |-> sage.age_vectors[U[k]][outside[r]]]]
             /\ IsSimplexScenario(sage)
                   => /\ Len(f) = 3
                      /\ f[1].kind = "sum_relent"
                      /\ Len(f[1].y) = 2
                      /\ last.K = << <<"+", 1>> >>
                      /\ last.vec = <<sage.c[1]>>

====
